---- MODULE Spec2Model ----
(***************************************************************************)
(* The orchestration core of meadow: one planning agent (a PlannerAgent or *)
(* a SQLDecomposerAgent), its per-counterpart message history, its plan    *)
(* (an indexable list with a cursor, or a consume-once queue) and the      *)
(* grammar that parses a plan out of the text a language model returns.    *)
(*                                                                         *)
(* Text is a sequence of tokens: a tag, a run of characters or a blank.    *)
(* The counterpart agents are the callers of send/receive; their own       *)
(* receive is a call this model records and that returns.                  *)
(***************************************************************************)
EXTENDS Integers, Sequences, FiniteSets, TLC

(***************************************************************************)
(* Bounds of the model.                                                    *)
(***************************************************************************)
\* messages the history holds, over all counterparts, before the callers stop
MaxHistory == 3
\* the orchestrator stops calling the planner's move_to_next_agent here
MaxPlanIndex == 3
\* planning turns that (re)build a plan
MaxPlans == 2
\* sub-tasks the decomposer's queue holds before the orchestrator drains it
MaxQueue == 3
\* execution attempts an executor counts
MaxAttempts == 1
\* the tokens of a text termination detection is applied to
MaxContent == 4
\* the steps of a plan text parse_plan is applied to
MaxSteps == 2
\* the items of an enumerated list a backend text has at most
MaxItems == 3

(***************************************************************************)
(* Text.                                                                   *)
(***************************************************************************)
Open(n) == [k |-> "open", v |-> n]
Close(n) == [k |-> "close", v |-> n]
Text(s) == [k |-> "text", v |-> s]
WS == [k |-> "ws", v |-> " "]
NL == [k |-> "ws", v |-> "\n"]
\* the marker of item n of an enumerated list, "n. "
Num(n) == [k |-> "num", v |-> n]
\* emphasis markup, "**"
Em == [k |-> "em", v |-> "**"]
\* a one-word string
Str(s) == <<Text(s)>>

\* "x in s" for a one-token x
Contains(s, t) == \E i \in 1..Len(s) : s[i] = t

\* str.startswith / str.endswith
startswith(s, p) == Len(p) <= Len(s) /\ SubSeq(s, 1, Len(p)) = p
endswith(s, p) == Len(p) <= Len(s) /\ SubSeq(s, Len(s) - Len(p) + 1, Len(s)) = p

\* str.strip(): the text without its leading and trailing blanks
strip(s) ==
    LET solid == {i \in 1..Len(s) : s[i].k # "ws"}
        Min(S) == CHOOSE x \in S : \A y \in S : x <= y
        Max(S) == CHOOSE x \in S : \A y \in S : x >= y
    IN  IF solid = {} THEN <<>> ELSE SubSeq(s, Min(solid), Max(solid))

(***************************************************************************)
(* Termination detection (utils.py).                                       *)
(***************************************************************************)
\* PlannerAgent.__init__'s default termination_message, "<exit>"
termination_message == <<Open("exit")>>

\* a detection that looks for the sentinel anywhere in the text (what C15
\* excludes)
has_termination_condition_anywhere(content, term) ==
    \E i \in 1..Len(content) : startswith(SubSeq(content, i, Len(content)), term)

has_termination_condition(content, term) ==
    endswith(strip(content), term) \/ startswith(strip(content), term)

(***************************************************************************)
(* The planner's grammar (planner.py): <steps><step1><agent>..</agent>     *)
(* <instruction>..</instruction></step1>..</steps>.                        *)
(***************************************************************************)
\* the tags open before token i of s, less the tags closed before it
Depth(s, i) ==
    Cardinality({j \in 1..(i - 1) : s[j].k = "open"})
        - Cardinality({j \in 1..(i - 1) : s[j].k = "close"})

\* the end tag that closes the element opened at i (0: there is none)
Match(s, i) ==
    LET ends == {m \in (i + 1)..Len(s) :
                    s[m].k = "close" /\ Depth(s, m + 1) = Depth(s, i)}
    IN  IF ends = {} THEN 0 ELSE CHOOSE m \in ends : \A n \in ends : m <= n

\* what ET.fromstring accepts: one root element, every start tag closed by
\* the end tag of its name, nothing after the root
WellFormed(s) ==
    /\ Len(s) >= 2
    /\ s[1].k = "open"
    /\ \A i \in 2..Len(s) : Depth(s, i) >= 1
    /\ Depth(s, Len(s) + 1) = 0
    /\ \A i \in 1..Len(s) :
          s[i].k = "open" => (Match(s, i) # 0 /\ s[Match(s, i)].v = s[i].v)

\* the start tags of the children of the element opened at i
Children(s, i) ==
    {j \in (i + 1)..(Match(s, i) - 1) :
        s[j].k = "open" /\ Depth(s, j) = Depth(s, i) + 1}

\* Element.find(tag): the first child with that tag (0: None)
find(s, i, tag) ==
    LET hits == {j \in Children(s, i) : s[j].v = tag}
    IN  IF hits = {} THEN 0 ELSE CHOOSE j \in hits : \A n \in hits : j <= n

\* Element.text: the characters between the start tag and the first child or
\* the end tag; <<>> stands for None (an element that holds no characters)
text(s, i) ==
    LET stops == {j \in (i + 1)..Len(s) : s[j].k \in {"open", "close"}}
    IN  SubSeq(s, i + 1, (CHOOSE j \in stops : \A n \in stops : j <= n) - 1)

\* re.search(r"(<steps>.*</steps>)", message, re.DOTALL): from the first
\* <steps> to the last </steps> after it (<<>>: no match)
inner_steps(message) ==
    LET starts == {i \in 1..Len(message) : message[i] = Open("steps")}
        first == CHOOSE i \in starts : \A j \in starts : i <= j
        ends == {i \in 1..Len(message) : message[i] = Close("steps") /\ i > first}
        last_end == CHOOSE i \in ends : \A j \in ends : i >= j
    IN  IF starts = {} \/ ends = {} THEN <<>> ELSE SubSeq(message, first, last_end)

\* one SubTask of the planner: index, agent, prompt
PlannerSubTask(index, agent, prompt) ==
    [index |-> index, agent |-> agent, prompt |-> prompt]

\* the agent and the instruction of the step opened at i; raises names the
\* exception the step's extraction ends in
ParseStep(s, i) ==
    LET a == find(s, i, "agent")
        ins == find(s, i, "instruction")
        agent == IF a # 0 THEN text(s, a) ELSE Str("Unknown")
        instruction == IF ins # 0 THEN strip(text(s, ins)) ELSE Str("No instruction")
    IN  [at |-> i,
         agent |-> agent,
         prompt |-> instruction,
         raises |-> IF ins # 0 /\ text(s, ins) = <<>> THEN "AttributeError"
                    ELSE IF agent = <<>> THEN "ValidationError"
                    ELSE "none"]

\* the steps in document order, as SubTasks indexed by len(plan)
RECURSIVE PlanOf(_, _)
PlanOf(parsed, done) ==
    IF parsed = {} THEN <<>>
    ELSE LET step == CHOOSE x \in parsed : \A y \in parsed : x.at <= y.at
         IN  <<PlannerSubTask(done, step.agent, step.prompt)>>
                 \o PlanOf(parsed \ {step}, done + 1)

\* the loop of parse_plan over the children of the root of s, a parsed tree:
\* the first step that raises ends it
parse_steps(s) ==
    LET parsed == {ParseStep(s, j) : j \in Children(s, 1)}
        bad == {x \in parsed : x.raises # "none"}
    IN  IF bad # {}
        THEN [raises |-> (CHOOSE x \in bad : \A y \in bad : x.at <= y.at).raises,
              plan |-> <<>>]
        ELSE [raises |-> "none", plan |-> PlanOf(parsed, 0)]

\* parse_plan below the test for "<steps>", on the text the search matched
parse_inner(s) ==
    IF s = <<>> THEN [raises |-> "AttributeError", plan |-> <<>>]
    ELSE IF ~WellFormed(s) THEN [raises |-> "none", plan |-> <<>>]
    ELSE parse_steps(s)

\* a parse_plan that takes a text without "<steps>" for an empty plan (what
\* C19 excludes)
parse_plan_or_nothing(message) ==
    IF ~Contains(message, Open("steps"))
    THEN [raises |-> "none", plan |-> <<>>]
    ELSE CHOOSE r \in {parse_inner(s) : s \in {inner_steps(message)}} : TRUE

\* parse_plan(message): [raises, plan]
parse_plan(message) ==
    IF ~Contains(message, Open("steps"))
    THEN [raises |-> "ValueError", plan |-> <<>>]
    ELSE CHOOSE r \in {parse_inner(s) : s \in {inner_steps(message)}} : TRUE

(***************************************************************************)
(* The decomposer's grammars (sql_decomposer.py): <instructionN>..         *)
(* </instructionN> tags, or an enumerated list 1. 2. 3.                    *)
(***************************************************************************)
\* the tags <instruction\d*> of the texts of this model
InstructionTags == {"instruction", "instruction1", "instruction2"}

\* the smallest member of a set of numbers
Least(S) == CHOOSE x \in S : \A y \in S : x <= y

\* pattern.findall(input_str) from token i on: each match runs from an
\* instruction start tag to the first instruction end tag after it
RECURSIVE findall(_, _)
findall(s, i) ==
    LET starts == {j \in i..Len(s) : s[j].k = "open" /\ s[j].v \in InstructionTags}
        ends == {j \in (Least(starts) + 1)..Len(s) :
                    s[j].k = "close" /\ s[j].v \in InstructionTags}
    IN  IF starts = {} THEN <<>>
        ELSE IF ends = {} THEN <<>>
        ELSE <<SubSeq(s, Least(starts) + 1, Least(ends) - 1)>>
                 \o findall(s, Least(ends) + 1)

parse_steps_instructions(input_str) ==
    [n \in 1..Len(findall(input_str, 1)) |-> strip(findall(input_str, 1)[n])]

\* int(..) of the digits of a marker
NumVal == [d \in {"1", "2", "3"} |-> CASE d = "1" -> 1 [] d = "2" -> 2 [] d = "3" -> 3]

\* re.split(r"(\n\d+\.\s+)", text): a separator is a line break followed by a
\* marker and the blanks after it; the line break is not one that the blanks
\* of an earlier separator have taken
RECURSIVE separator(_, _)
separator(t, j) ==
    /\ j >= 2
    /\ t[j].k = "num"
    /\ t[j - 1] = NL
    /\ ~\E b \in 2..(j - 2) :
            /\ \A m \in (b + 1)..(j - 1) : t[m].k = "ws"
            /\ separator(t, b)

\* the places of text where a separator has its marker
Boundaries(t) == {j \in 2..Len(t) : separator(t, j)}

\* the pieces of the split from token i on, separators included, each
\* stripped, the empty ones dropped
RECURSIVE pieces(_, _)
pieces(t, i) ==
    LET later == {j \in Boundaries(t) : j > i}
        upto == IF later = {} THEN Len(t) ELSE Least(later) - 2
        piece == strip(SubSeq(t, i, upto))
    IN  IF i > Len(t) THEN <<>>
        ELSE IF i \in Boundaries(t)
        THEN <<(<<t[i]>>)>> \o pieces(t, i + 1)
        ELSE (IF piece = <<>> THEN <<>> ELSE <<piece>>)
                 \o (IF later = {} THEN <<>> ELSE pieces(t, Least(later)))

\* str.replace("**", "")
unmarked(piece) == SelectSeq(piece, LAMBDA x : x # Em)

\* the loop over the pieces: the dict instructions, as its keys and the text
\* of each. A piece that starts with a marker sets cur_num and is dropped
RECURSIVE collect(_, _, _, _)
collect(ps, n, cur_num, instructions) ==
    IF n > Len(ps) THEN instructions
    ELSE IF ps[n][1].k = "num"
    THEN collect(ps, n + 1, NumVal[ps[n][1].v], instructions)
    ELSE collect(ps, n + 1, cur_num,
                 [keys |-> instructions.keys \cup {cur_num},
                  item |-> [instructions.item EXCEPT ![cur_num] = unmarked(ps[n])]])

\* [instructions[i] for i in sorted(instructions.keys())]
RECURSIVE ascending(_, _)
ascending(item, keys) ==
    IF keys = {} THEN <<>>
    ELSE <<item[Least(keys)]>> \o ascending(item, keys \ {Least(keys)})

\* the text after the first "1. ", with "\n1. " put before it
numbered_text(input_str) ==
    <<NL, Num("1")>> \o SubSeq(input_str,
        Least({i \in 1..Len(input_str) : input_str[i] = Num("1")}) + 1, Len(input_str))

\* the list parse_steps_numbers returns for the dict instructions
numbered_steps(instructions) == ascending(instructions.item, instructions.keys)

\* parse_steps_numbers(input_str): [raises, steps]
parse_steps_numbers(input_str) ==
    IF ~Contains(input_str, Num("1"))
    THEN [raises |-> "ValueError", steps |-> <<>>]
    ELSE [raises |-> "none",
          steps |-> CHOOSE r \in {numbered_steps(d) :
                        d \in {collect(ps, 1, 0, [keys |-> {}, item |-> [i \in 1..3 |-> <<>>]]) :
                                  ps \in {pieces(numbered_text(input_str), 1)}}} : TRUE]

\* SubTaskForParse
SubTaskForParse(agent_name, prompt) == [agent_name |-> agent_name, prompt |-> prompt]

\* parse_plan(message, agent_name, agent_to_use) of the decomposer: the plan
\* its reply carries as JSON, which generate_reply loads back unchanged
decomposer_parse_plan(message, agent_to_use) ==
    LET parsed == IF \E i \in 1..Len(message) :
                        message[i].k = "open" /\ message[i].v \in InstructionTags
                  THEN [raises |-> "none", steps |-> parse_steps_instructions(message)]
                  ELSE parse_steps_numbers(message)
    IN  [raises |-> parsed.raises,
         plan |-> [n \in 1..Len(parsed.steps) |->
                      SubTaskForParse(agent_to_use, parsed.steps[n])]]

(***************************************************************************)
(* Agents and messages.                                                    *)
(***************************************************************************)
\* the agents that exchange messages with the planning agent
Counterparts == {"User", "Controller"}

\* the agent the orchestrator names as sender when it calls generate_reply
Callers == {"Controller"}

\* the texts a counterpart sends
Requests == {Str("q1"), <<WS, Text("q2"), WS>>}

\* the texts the orchestrator has the planning agent send
Notices == {Str("n1")}

\* the agents a PlannerAgent is constructed with (available_agents)
PlannerAgents == {Str("SQLGenerator"), Str("MultiCTESQLGenerator")}

\* Agent.executors of the sub-agents: SQLGenerator has two executors, Aux has
\* one, any other agent has none (None)
executors(agent) ==
    IF agent = Str("SQLGenerator") THEN {"ex1", "ex2"}
    ELSE IF agent = Str("Aux") THEN {"ex3"}
    ELSE {}

Executors == {"ex1", "ex2", "ex3"}

\* AgentMessage: counterpart is the agent the message is exchanged with, as
\* the caller of send or receive names it
AgentMessage(role, content, is_termination_message, counterpart) ==
    [role |-> role, content |-> content,
     is_termination_message |-> is_termination_message,
     receiving_agent |-> "none",
     counterpart |-> counterpart]

\* None where a message is expected
NoMessage == AgentMessage("none", <<>>, FALSE, "none")

\* MessageHistory(): no counterpart has a message
MessageHistory == [a \in Counterparts |-> <<>>]

\* MessageHistory.add_message(agent, role, message)
add_message(history, agent, role, message) ==
    [history EXCEPT ![agent] = Append(@, [message EXCEPT !.role = role])]

\* MessageHistory.get_messages(agent)
get_messages(history, agent) == history[agent]

\* the messages a history holds, over all counterparts
RECURSIVE Recorded(_, _)
Recorded(history, agents) ==
    IF agents = {} THEN 0
    ELSE LET a == CHOOSE x \in agents : TRUE
         IN  Len(history[a]) + Recorded(history, agents \ {a})

\* what a call did, in order: a message recorded, a counterpart's receive invoked
Added(agent, role, message) ==
    [ev |-> "add_message", agent |-> agent, message |-> [message EXCEPT !.role = role]]
Received(agent, message) ==
    [ev |-> "receive", agent |-> agent, message |-> message]

\* the result of a call: the exception it raised ("none": it returned), the
\* agent and the text it was given or returned, the message it was given, the
\* reply generate_reply returned, and what the call did
NoAgent == <<>>
NoResponse == [raised |-> FALSE, content |-> <<>>]
Outcome(op, exc, agent, prompt, message, reply, events) ==
    [op |-> op, exc |-> exc, agent |-> agent, prompt |-> prompt,
     message |-> message, reply |-> reply, events |-> events,
     response |-> NoResponse]

\* the result of a call that asked the backend, with what the backend answered
Answered(outcome, response) == [outcome EXCEPT !.response = response]

(***************************************************************************)
(* What the backend answers.                                               *)
(***************************************************************************)
Step(n, agent, instruction) ==
    <<Open(n), Open("agent")>> \o agent \o <<Close("agent"), Open("instruction")>>
        \o instruction \o <<Close("instruction"), Close(n)>>
Steps(body) == <<Open("steps")>> \o body \o <<Close("steps")>>

PlannerContents ==
    { Steps(Step("step1", Str("SQLGenerator"), Str("a"))
              \o Step("step2", Str("MultiCTESQLGenerator"), <<WS, Text("b")>>)),
      Steps(Step("step1", Str("MultiCTESQLGenerator"), Str("c"))),
      Steps(Step("step1", Str("Ghost"), Str("a"))
              \o Step("step2", Str("SQLGenerator"), Str("b"))),
      <<Text("ok"), WS, Open("exit")>>,
      Str("sorry") }

\* parse_plan over the backend's texts, evaluated once
planner_parsed == [c \in PlannerContents |-> parse_plan(c)]

\* what the decomposer's backend answers in a conversation
DecomposerContents ==
    { <<Open("instruction1"), Text("a"), Close("instruction1"), NL,
        Open("instruction2"), WS, Text("b"), Close("instruction2")>>,
      <<Open("instruction1"), Text("c"), Close("instruction1")>>,
      <<Open("end")>>,
      Str("sorry") }

\* and when generate_reply is called on its own
DispatchContents ==
    DecomposerContents
        \cup { <<Text("plan"), NL, Num("2"), Text("y"), NL, Num("1"), Text("x"), Em>>,
               <<Open("instruction1"), Text("a")>> }

\* the decomposer's parse_plan over the backend's texts, evaluated once
decomposer_parsed ==
    [c \in DispatchContents |-> decomposer_parse_plan(c, Str("SQLGenerator"))]

\* generate_llm_reply: the backend call returns a text or fails
BackendOutcomes(contents) ==
    {[raised |-> TRUE, content |-> <<>>]}
        \cup {[raised |-> FALSE, content |-> c] : c \in contents}

\* how a SQLDecomposerAgent is constructed: with a client or with None, and
\* with its available_agents
Constructions ==
    { [client |-> TRUE, available_agents |-> {Str("SQLGenerator"), Str("Aux")}],
      [client |-> TRUE, available_agents |-> {Str("Aux")}],
      [client |-> FALSE, available_agents |-> {Str("Aux")}],
      [client |-> FALSE, available_agents |-> {Str("SQLGenerator"), Str("Aux")}] }

VARIABLES
    cls,               \* the class of the planning agent
    client,            \* self._client is not None
    available_agents,  \* the names in self._available_agents
    messages,          \* self._messages
    plan,              \* self._plan
    plan_index,        \* self._plan_index (PlannerAgent)
    attempts,          \* the execution attempts each executor counts
    last,              \* the outcome of the latest call
    plans,             \* how many times the planner's self._plan was assigned
    planned_at,        \* the value of moves when it was last assigned
    moves,             \* the calls of the planner's move_to_next_agent
    enqueued,          \* the sub-tasks the decomposer put in its queue, in order
    dequeued,          \* the sub-tasks its move_to_next_agent returned, in order
    terminated,        \* the planner has returned a termination message
    input,             \* the text a function is applied to on its own
    output             \* what the function returned or raised

vars == <<cls, client, available_agents, messages, plan, plan_index, attempts,
          last, plans, planned_at, moves, enqueued, dequeued, terminated, input, output>>

\* no function was applied on its own
NoInput == <<>>
NoOutput == [raises |-> "unset", value |-> <<>>]

\* what no call on an agent changes
config == <<cls, client, available_agents, input, output>>

(***************************************************************************)
(* send, as PlannerAgent and SQLDecomposerAgent define it.                 *)
(***************************************************************************)
\* the message send records and delivers: the decomposer names the recipient
\* in it (message.receiving_agent = recipient.name)
addressed(class, message, recipient) ==
    IF class = "SQLDecomposerAgent"
    THEN [message EXCEPT !.receiving_agent = recipient]
    ELSE message

\* a send that keeps one transcript for every counterpart (what C7 excludes)
send_history_shared(class, history, message, recipient) ==
    IF message = NoMessage THEN history
    ELSE add_message(history, "User", "assistant", addressed(class, message, recipient))

\* a send that keeps a termination message to itself (what C9 excludes)
send_history_unless_terminal(class, history, message, recipient) ==
    IF message = NoMessage \/ message.is_termination_message THEN history
    ELSE add_message(history, recipient, "assistant", addressed(class, message, recipient))

\* the history after send(message, recipient)
send_history(class, history, message, recipient) ==
    IF message = NoMessage THEN history
    ELSE add_message(history, recipient, "assistant", addressed(class, message, recipient))

\* a send that delivers before it records (what C8 excludes)
send_events_deliver_first(class, message, recipient) ==
    IF message = NoMessage THEN <<>>
    ELSE <<Received(recipient, addressed(class, message, recipient)),
           Added(recipient, "assistant", addressed(class, message, recipient))>>

\* what send(message, recipient) does, in order
send_events(class, message, recipient) ==
    IF message = NoMessage THEN <<>>
    ELSE <<Added(recipient, "assistant", addressed(class, message, recipient)),
           Received(recipient, addressed(class, message, recipient))>>

\* send(message, recipient) called by the orchestrator
send(class) ==
    /\ cls = class
    /\ \E recipient \in Counterparts :
       \E message \in {NoMessage}
            \cup {AgentMessage("assistant", c, FALSE, recipient) : c \in Notices} :
          /\ Recorded(messages, Counterparts) < MaxHistory
          /\ messages' = send_history(class, messages, message, recipient)
          /\ last' = Outcome("send", IF message = NoMessage THEN "ValueError" ELSE "none",
                             recipient, message.content, message, NoMessage,
                             send_events(class, message, recipient))
    /\ UNCHANGED <<config, terminated, plan, plan_index, attempts, plans, planned_at, moves,
                   enqueued, dequeued>>

(***************************************************************************)
(* PlannerAgent (planner.py).                                              *)
(***************************************************************************)
\* PlannerAgent.__init__
PlannerAgent_init ==
    /\ cls = "PlannerAgent"
    /\ client = TRUE
    /\ available_agents = PlannerAgents
    /\ messages = MessageHistory
    /\ plan_index = -1
    /\ plan = <<>>

\* self._plan[self._plan_index]
sub_task_at(p, index) == p[index + 1]

\* a cursor that moves two positions at a time (what C2 excludes)
advance_by_two(index) == index + 2

\* a cursor that stays on the step it has reached (what C24 excludes)
advance_unless_started(index) == IF index >= 0 THEN index ELSE index + 1

\* the cursor after self._plan_index += 1
advance(index) == index + 1

\* a bounds test that is off by one, so that the cursor can index one past the
\* end of the plan (what C3 excludes)
planner_next_off_by_one(p, index, agents) ==
    IF index > Len(p)
    THEN Outcome("move_to_next_agent", "ValueError", NoAgent, <<>>, NoMessage, NoMessage, <<>>)
    ELSE IF index = Len(p)
    THEN Outcome("move_to_next_agent", "IndexError", NoAgent, <<>>, NoMessage, NoMessage, <<>>)
    ELSE IF sub_task_at(p, index).agent \notin agents
    THEN Outcome("move_to_next_agent", "KeyError", NoAgent, <<>>, NoMessage, NoMessage, <<>>)
    ELSE Outcome("move_to_next_agent", "none", sub_task_at(p, index).agent,
                 sub_task_at(p, index).prompt, NoMessage, NoMessage, <<>>)

\* a lookup that falls back on some available agent when the name is unknown
\* (what C22 excludes)
planner_next_substituting(p, index, agents) ==
    IF index >= Len(p)
    THEN Outcome("move_to_next_agent", "ValueError", NoAgent, <<>>, NoMessage, NoMessage, <<>>)
    ELSE IF sub_task_at(p, index).agent \notin agents
    THEN Outcome("move_to_next_agent", "none", CHOOSE a \in agents : TRUE,
                 sub_task_at(p, index).prompt, NoMessage, NoMessage, <<>>)
    ELSE Outcome("move_to_next_agent", "none", sub_task_at(p, index).agent,
                 sub_task_at(p, index).prompt, NoMessage, NoMessage, <<>>)

\* PlannerAgent.move_to_next_agent's result with the cursor advanced to index
planner_next(p, index, agents) ==
    IF index >= Len(p)
    THEN Outcome("move_to_next_agent", "ValueError", NoAgent, <<>>, NoMessage, NoMessage, <<>>)
    ELSE IF sub_task_at(p, index).agent \notin agents
    THEN Outcome("move_to_next_agent", "KeyError", NoAgent, <<>>, NoMessage, NoMessage, <<>>)
    ELSE Outcome("move_to_next_agent", "none", sub_task_at(p, index).agent,
                 sub_task_at(p, index).prompt, NoMessage, NoMessage, <<>>)

PlannerAgent_move_to_next_agent ==
    /\ cls = "PlannerAgent"
    /\ plan_index < MaxPlanIndex
    /\ plan_index' = advance(plan_index)
    /\ last' = planner_next(plan, plan_index', available_agents)
    /\ moves' = moves + 1
    /\ UNCHANGED <<config, terminated, messages, plan, attempts, plans, planned_at, enqueued, dequeued>>

\* a generate_reply that drops the plan when the backend ends the planning
\* (what C11 excludes)
planner_reply_dropping_plan(outcome, p, sender) ==
    IF outcome.raised
    THEN [exc |-> "BackendError", plan |-> p, assigned |-> FALSE, reply |-> NoMessage]
    ELSE IF has_termination_condition(outcome.content, termination_message)
    THEN [exc |-> "none", plan |-> <<>>, assigned |-> FALSE,
          reply |-> AgentMessage("assistant", outcome.content, TRUE, sender)]
    ELSE IF parse_plan(outcome.content).raises # "none"
    THEN [exc |-> parse_plan(outcome.content).raises, plan |-> p, assigned |-> FALSE,
          reply |-> NoMessage]
    ELSE [exc |-> "none", plan |-> parse_plan(outcome.content).plan, assigned |-> TRUE,
          reply |-> AgentMessage("assistant", outcome.content, FALSE, sender)]

\* PlannerAgent.generate_reply on a backend outcome: the exception raised, the
\* plan afterwards, whether self._plan was assigned, and the reply
planner_reply(outcome, p, sender) ==
    IF outcome.raised
    THEN [exc |-> "BackendError", plan |-> p, assigned |-> FALSE, reply |-> NoMessage]
    ELSE IF has_termination_condition(outcome.content, termination_message)
    THEN [exc |-> "none", plan |-> p, assigned |-> FALSE,
          reply |-> AgentMessage("assistant", outcome.content, TRUE, sender)]
    ELSE IF planner_parsed[outcome.content].raises # "none"
    THEN [exc |-> planner_parsed[outcome.content].raises, plan |-> p, assigned |-> FALSE,
          reply |-> NoMessage]
    ELSE [exc |-> "none", plan |-> planner_parsed[outcome.content].plan, assigned |-> TRUE,
          reply |-> AgentMessage("assistant", outcome.content, FALSE, sender)]

PlannerAgent_send == send("PlannerAgent")

\* f"<objective>{content}</objective>" and f"<feedback>{content}</feedback>"
objective(content) == <<Open("objective")>> \o content \o <<Close("objective")>>
feedback(content) == <<Open("feedback")>> \o content \o <<Close("feedback")>>

\* a receive that wraps every message as an objective (what C25 excludes)
wrap_as_objective(history, sender, content) == objective(content)

\* the marker receive wraps the content in
wrap(history, sender, content) ==
    IF Len(get_messages(history, sender)) = 0
    THEN objective(content)
    ELSE feedback(content)

PlannerAgent_receive ==
    /\ cls = "PlannerAgent"
    /\ \E sender \in Counterparts, content \in Requests,
          outcome \in BackendOutcomes(PlannerContents) :
        LET given == AgentMessage("user", content, FALSE, sender)
            message == [given EXCEPT !.content = wrap(messages, sender, content)]
            recorded == add_message(messages, sender, "user", message)
        IN  \E r \in {planner_reply(outcome, plan, sender)} :
            /\ Recorded(messages, Counterparts) + (IF r.exc = "none" THEN 2 ELSE 1)
                  <= MaxHistory
            /\ r.assigned => plans < MaxPlans
            /\ messages' = IF r.exc = "none"
                           THEN send_history(cls, recorded, r.reply, sender)
                           ELSE recorded
            /\ plan' = r.plan
            /\ plans' = IF r.assigned THEN plans + 1 ELSE plans
            /\ planned_at' = IF r.assigned THEN moves ELSE planned_at
            /\ terminated' = (terminated
                                 \/ (r.exc = "none" /\ r.reply.is_termination_message))
            /\ last' = Answered(Outcome("receive", r.exc, sender, content, given, r.reply,
                                        <<Added(sender, "user", message)>>
                                            \o (IF r.exc = "none"
                                                THEN send_events(cls, r.reply, sender)
                                                ELSE <<>>)),
                                outcome)
    /\ UNCHANGED <<config, plan_index, attempts, moves, enqueued, dequeued>>

\* generate_reply(messages, sender) called on its own, with one request as
\* messages
PlannerAgent_generate_reply ==
    /\ cls = "PlannerAgent"
    /\ \E sender \in Callers, request \in Requests,
          outcome \in BackendOutcomes(PlannerContents) :
        \E r \in {planner_reply(outcome, plan, sender)} :
            /\ r.assigned => plans < MaxPlans
            /\ plan' = r.plan
            /\ plans' = IF r.assigned THEN plans + 1 ELSE plans
            /\ planned_at' = IF r.assigned THEN moves ELSE planned_at
            /\ terminated' = (terminated
                                 \/ (r.exc = "none" /\ r.reply.is_termination_message))
            /\ last' = Answered(Outcome("generate_reply", r.exc, sender, request,
                                        AgentMessage("user", request, FALSE, sender),
                                        r.reply, <<>>),
                                outcome)
    /\ UNCHANGED <<config, messages, plan_index, attempts, moves, enqueued, dequeued>>

(***************************************************************************)
(* SQLDecomposerAgent (sql_decomposer.py).                                 *)
(***************************************************************************)
\* SQLDecomposerAgent.__init__
SQLDecomposerAgent_init ==
    /\ cls = "SQLDecomposerAgent"
    /\ \E c \in Constructions :
          /\ client = c.client
          /\ available_agents = c.available_agents
    /\ messages = MessageHistory
    /\ plan = <<>>
    /\ plan_index = -1

\* SubTask of agent.py: the agent and the prompt
SubTask(agent, prompt) == [agent |-> agent, prompt |-> prompt]

\* Commands.has_end(content)
has_end(content) == has_termination_condition(content, <<Open("end")>>)

\* a reset that reaches the executors of every agent (what C4 excludes)
reset_every_execution_attempts(counts, agent) == [e \in Executors |-> 0]

\* ex.reset_execution_attempts() for the executors of agent
reset_execution_attempts(counts, agent) ==
    [e \in Executors |-> IF e \in executors(agent) THEN 0 ELSE counts[e]]

\* the get() of a last-in-first-out queue (what C5 excludes)
get_last(queue) ==
    [item |-> queue[Len(queue)], rest |-> SubSeq(queue, 1, Len(queue) - 1)]

\* Queue.get() on a queue that is not empty: the item removed and the rest
get(queue) == [item |-> Head(queue), rest |-> Tail(queue)]

\* a move_to_next_agent that lets the queue's Empty exception out (what C6
\* excludes)
queue_empty_raised ==
    Outcome("move_to_next_agent", "Empty", NoAgent, <<>>, NoMessage, NoMessage, <<>>)

\* what move_to_next_agent returns on an empty queue: None
no_task ==
    Outcome("move_to_next_agent", "none", NoAgent, <<>>, NoMessage, NoMessage, <<>>)

SQLDecomposerAgent_move_to_next_agent ==
    /\ cls = "SQLDecomposerAgent"
    /\ IF plan = <<>>
       THEN /\ last' = no_task
            /\ UNCHANGED <<plan, attempts, dequeued>>
       ELSE /\ plan' = get(plan).rest
            /\ attempts' = reset_execution_attempts(attempts, get(plan).item.agent)
            /\ dequeued' = Append(dequeued, get(plan).item)
            /\ last' = Outcome("move_to_next_agent", "none", get(plan).item.agent,
                               get(plan).item.prompt, NoMessage, NoMessage, <<>>)
    /\ UNCHANGED <<config, terminated, messages, plan_index, plans, planned_at, moves, enqueued>>

\* a plan of one step that keeps the backend's instruction (what C14 excludes)
kept_as_parsed(parsed_plan, request) == parsed_plan

\* the single-step rule: a plan of one step gets messages[-1].content as prompt
collapsed(parsed_plan, request) ==
    IF Len(parsed_plan) = 1
    THEN <<[parsed_plan[1] EXCEPT !.prompt = request]>>
    ELSE parsed_plan

\* the sub-tasks the loop over parsed_plan puts in the queue: all of them, or
\* those before the first whose agent_name is not in self._available_agents
RECURSIVE puts(_, _)
puts(parsed_plan, agents) ==
    IF parsed_plan = <<>> \/ Head(parsed_plan).agent_name \notin agents THEN <<>>
    ELSE <<SubTask(Head(parsed_plan).agent_name, Head(parsed_plan).prompt)>>
             \o puts(Tail(parsed_plan), agents)

\* a generate_reply that puts the sub-tasks first and looks their agents up
\* afterwards (what C23 excludes)
reply_enqueueing_before_lookup(outcome, request, agents, sender) ==
    IF outcome.raised
    THEN [exc |-> "BackendError", put |-> <<>>, reply |-> NoMessage]
    ELSE IF has_end(outcome.content)
    THEN [exc |-> "none", put |-> <<>>,
          reply |-> AgentMessage("assistant", outcome.content, TRUE, sender)]
    ELSE IF decomposer_parsed[outcome.content].raises # "none"
    THEN [exc |-> decomposer_parsed[outcome.content].raises, put |-> <<>>,
          reply |-> NoMessage]
    ELSE LET parsed_plan == collapsed(decomposer_parsed[outcome.content].plan, request)
             put == [n \in 1..Len(parsed_plan) |->
                        SubTask(parsed_plan[n].agent_name, parsed_plan[n].prompt)]
         IN  IF Len(puts(parsed_plan, agents)) < Len(parsed_plan)
             THEN [exc |-> "KeyError", put |-> put, reply |-> NoMessage]
             ELSE [exc |-> "none", put |-> put,
                   reply |-> AgentMessage("assistant", outcome.content, FALSE, sender)]

\* generate_reply with a client, on a backend outcome; request is
\* messages[-1].content
reply_with_client(outcome, request, agents, sender) ==
    IF outcome.raised
    THEN [exc |-> "BackendError", put |-> <<>>, reply |-> NoMessage]
    ELSE IF has_end(outcome.content)
    THEN [exc |-> "none", put |-> <<>>,
          reply |-> AgentMessage("assistant", outcome.content, TRUE, sender)]
    ELSE IF decomposer_parsed[outcome.content].raises # "none"
    THEN [exc |-> decomposer_parsed[outcome.content].raises, put |-> <<>>,
          reply |-> NoMessage]
    ELSE LET parsed_plan == collapsed(decomposer_parsed[outcome.content].plan, request)
         IN  IF Len(puts(parsed_plan, agents)) < Len(parsed_plan)
             THEN [exc |-> "KeyError", put |-> puts(parsed_plan, agents),
                   reply |-> NoMessage]
             ELSE [exc |-> "none", put |-> puts(parsed_plan, agents),
                   reply |-> AgentMessage("assistant", outcome.content, FALSE, sender)]

\* a generate_reply without a client that takes the first agent when there
\* are several (what C16 excludes)
reply_with_any_agent(request, agents, sender) ==
    LET agent == CHOOSE a \in agents : TRUE
    IN  [exc |-> "none", put |-> <<SubTask(agent, request)>>,
         reply |-> AgentMessage("assistant", Steps(Step("step1", agent, request)),
                                FALSE, sender)]

\* a generate_reply without a client that trims the request it enqueues (what
\* C17 excludes)
reply_with_trimmed_request(request, agents, sender) ==
    IF Cardinality(agents) > 1
    THEN [exc |-> "ValueError", put |-> <<>>, reply |-> NoMessage]
    ELSE LET agent == CHOOSE a \in agents : TRUE
         IN  [exc |-> "none", put |-> <<SubTask(agent, strip(request))>>,
              reply |-> AgentMessage("assistant", Steps(Step("step1", agent, request)),
                                     FALSE, sender)]

\* generate_reply without a client
reply_without_client(request, agents, sender) ==
    IF Cardinality(agents) > 1
    THEN [exc |-> "ValueError", put |-> <<>>, reply |-> NoMessage]
    ELSE LET agent == CHOOSE a \in agents : TRUE
         IN  [exc |-> "none", put |-> <<SubTask(agent, request)>>,
              reply |-> AgentMessage("assistant", Steps(Step("step1", agent, request)),
                                     FALSE, sender)]

\* SQLDecomposerAgent.generate_reply: the exception raised, the sub-tasks put
\* in the queue, and the reply
decomposer_reply(has_client, outcome, request, agents, sender) ==
    IF has_client THEN reply_with_client(outcome, request, agents, sender)
    ELSE reply_without_client(request, agents, sender)

\* the outcomes of the backend call generate_reply makes, if it makes one
DecomposerOutcomes(has_client, contents) ==
    IF has_client THEN BackendOutcomes(contents)
    ELSE {NoResponse}

SQLDecomposerAgent_send == send("SQLDecomposerAgent")

SQLDecomposerAgent_receive ==
    /\ cls = "SQLDecomposerAgent"
    /\ \E sender \in Counterparts, content \in Requests,
          outcome \in DecomposerOutcomes(client, DecomposerContents) :
        LET message == AgentMessage("user", content, FALSE, sender)
            recorded == add_message(messages, sender, "user", message)
            request == get_messages(recorded, sender)[Len(get_messages(recorded, sender))].content
        IN  \E r \in {decomposer_reply(client, outcome, request, available_agents,
                                        sender)} :
            /\ Recorded(messages, Counterparts) + (IF r.exc = "none" THEN 2 ELSE 1)
                  <= MaxHistory
            /\ Len(enqueued) + Len(r.put) <= MaxQueue
            /\ messages' = IF r.exc = "none"
                           THEN send_history(cls, recorded, r.reply, sender)
                           ELSE recorded
            /\ plan' = plan \o r.put
            /\ enqueued' = enqueued \o r.put
            /\ last' = Answered(Outcome("receive", r.exc, sender, content, message, r.reply,
                                        <<Added(sender, "user", message)>>
                                            \o (IF r.exc = "none"
                                                THEN send_events(cls, r.reply, sender)
                                                ELSE <<>>)),
                                outcome)
    /\ UNCHANGED <<config, terminated, plan_index, attempts, plans, planned_at, moves, dequeued>>

\* generate_reply(messages, sender) called on its own, with one request as messages
SQLDecomposerAgent_generate_reply ==
    /\ cls = "SQLDecomposerAgent"
    /\ \E sender \in Callers, request \in Requests,
          outcome \in DecomposerOutcomes(client, DispatchContents) :
        \E r \in {decomposer_reply(client, outcome, request, available_agents, sender)} :
            /\ Len(enqueued) + Len(r.put) <= MaxQueue
            /\ plan' = plan \o r.put
            /\ enqueued' = enqueued \o r.put
            /\ last' = Answered(Outcome("generate_reply", r.exc, sender, request,
                                        AgentMessage("user", request, FALSE, sender),
                                        r.reply, <<>>),
                                outcome)
    /\ UNCHANGED <<config, terminated, messages, plan_index, attempts, plans, planned_at, moves,
                   dequeued>>

\* an executor of a sub-agent makes an execution attempt
ExecutorAgent_attempt ==
    /\ \E e \in Executors :
          /\ attempts[e] < MaxAttempts
          /\ attempts' = [attempts EXCEPT ![e] = @ + 1]
          /\ last' = Outcome("attempt", "none", NoAgent, <<>>, NoMessage, NoMessage, <<>>)
    /\ UNCHANGED <<config, terminated, messages, plan, plan_index, plans, planned_at, moves,
                   enqueued, dequeued>>

(***************************************************************************)
(* The functions of the modules, applied on their own.                     *)
(***************************************************************************)
\* the texts of at most n tokens
Texts(tokens, n) == UNION {[1..k -> tokens] : k \in 0..n}

\* the texts termination detection is applied to: blanks, the sentinel, a word
TerminationTexts == Texts({WS, Open("exit"), Text("a")}, MaxContent)

\* has_termination_condition(input, "<exit>")
has_termination_condition_call ==
    /\ output.raises = "unset"
    /\ output' = [raises |-> "none",
                  value |-> has_termination_condition(input, termination_message)]
    /\ UNCHANGED <<cls, client, available_agents, input, messages, plan, plan_index,
                   attempts, last, plans, planned_at, moves, enqueued, dequeued,
                   terminated>>

\* the steps of the plan texts: an agent and an instruction, with and without
\* blanks around them
PlanAgents == {Str("A"), <<WS, Text("B")>>}
PlanInstructions == {Str("a"), <<WS, Text("b"), WS>>}
PlanSteps == [agent : PlanAgents, instruction : PlanInstructions]
StepSeqs == UNION {[1..k -> PlanSteps] : k \in 0..MaxSteps}

\* <step1>, <step2>, ...
StepName(i) ==
    CASE i = 1 -> "step1" [] i = 2 -> "step2" [] i = 3 -> "step3" [] OTHER -> "stepN"

\* the plan format of DEFAULT_PLANNER_PROMPT for the steps st
RECURSIVE StepsBody(_, _)
StepsBody(st, i) ==
    IF i > Len(st) THEN <<>>
    ELSE Step(StepName(i), st[i].agent, st[i].instruction) \o StepsBody(st, i + 1)
PlanText(st) == Steps(StepsBody(st, 1))

\* a text without its token i
Cut(t, i) == SubSeq(t, 1, i - 1) \o SubSeq(t, i + 1, Len(t))

\* the texts parse_plan is applied to: plans in the format, alone or with
\* words around them, plans with one token missing, and a text that is no plan
PlanTexts ==
    {PlanText(st) : st \in StepSeqs}
        \cup {<<Text("plan"), NL>> \o PlanText(st) \o <<NL, Text("done")>> : st \in StepSeqs}
        \cup UNION {{Cut(PlanText(st), i) : i \in 1..Len(PlanText(st))} : st \in StepSeqs}
        \cup {Str("sorry")}

\* parse_plan(input) of planner.py
parse_plan_call ==
    /\ output.raises = "unset"
    /\ output' = [raises |-> parse_plan(input).raises, value |-> parse_plan(input).plan]
    /\ UNCHANGED <<cls, client, available_agents, input, messages, plan, plan_index,
                   attempts, last, plans, planned_at, moves, enqueued, dequeued,
                   terminated>>

\* the items of the enumerated lists: a marker and a text, with and without
\* emphasis markup
ListNumbers == {"1", "2", "3"}
ListBodies == {Str("x"), <<Text("y"), Em>>}
ListItems == [num : ListNumbers, body : ListBodies]
ItemSeqs == UNION {[1..k -> ListItems] : k \in 1..MaxItems}

\* the items its, one to a line, from item i on
RECURSIVE ListText(_, _)
ListText(its, i) ==
    IF i > Len(its) THEN <<>>
    ELSE (IF i > 1 THEN <<NL>> ELSE <<>>) \o <<Num(its[i].num)>> \o its[i].body
             \o ListText(its, i + 1)

\* the texts parse_steps_numbers is applied to: lists in any order of their
\* markers, alone or after a line of words, and a text that is no list
NumberedTexts ==
    {ListText(its, 1) : its \in ItemSeqs}
        \cup {<<Text("plan"), NL>> \o ListText(its, 1) : its \in ItemSeqs}
        \cup {Str("sorry")}

\* parse_steps_numbers(input) of sql_decomposer.py
parse_steps_numbers_call ==
    /\ output.raises = "unset"
    /\ output' = [raises |-> parse_steps_numbers(input).raises,
                  value |-> parse_steps_numbers(input).steps]
    /\ UNCHANGED <<cls, client, available_agents, input, messages, plan, plan_index,
                   attempts, last, plans, planned_at, moves, enqueued, dequeued,
                   terminated>>

(***************************************************************************)
(* The specifications.                                                     *)
(***************************************************************************)
\* what is not part of the agent: nothing was called, no executor has made an
\* attempt
Uncalled ==
    /\ attempts = [e \in Executors |-> 0]
    /\ last = Outcome("init", "none", NoAgent, <<>>, NoMessage, NoMessage, <<>>)
    /\ plans = 0
    /\ planned_at = 0
    /\ moves = 0
    /\ enqueued = <<>>
    /\ dequeued = <<>>
    /\ terminated = FALSE

\* and no function was applied on its own
Fresh ==
    /\ Uncalled
    /\ input = NoInput
    /\ output = NoOutput

\* a planning agent of either class, just constructed
Init ==
    /\ PlannerAgent_init \/ SQLDecomposerAgent_init
    /\ Fresh

\* a conversation: counterparts send to the agent, the orchestrator has it
\* send and asks it for the next sub-task
Next ==
    \/ PlannerAgent_move_to_next_agent
    \/ PlannerAgent_send
    \/ PlannerAgent_receive
    \/ SQLDecomposerAgent_move_to_next_agent
    \/ SQLDecomposerAgent_send
    \/ SQLDecomposerAgent_receive

Spec == Init /\ [][Next]_vars

\* planning: the orchestrator has the planner plan and plan again, and asks it
\* for the next sub-task
PlanningInit ==
    /\ PlannerAgent_init
    /\ Fresh

PlanningNext ==
    \/ PlannerAgent_generate_reply
    \/ PlannerAgent_move_to_next_agent

PlanningSpec == PlanningInit /\ [][PlanningNext]_vars

\* dispatch: the orchestrator has the decomposer plan, takes sub-tasks from
\* its queue, and the executors of the sub-agents make attempts
DispatchInit ==
    /\ SQLDecomposerAgent_init
    /\ Fresh

DispatchNext ==
    \/ SQLDecomposerAgent_generate_reply
    \/ SQLDecomposerAgent_move_to_next_agent
    \/ ExecutorAgent_attempt

DispatchSpec == DispatchInit /\ [][DispatchNext]_vars

\* planning turns of an agent of either class: the orchestrator has it plan
\* and asks it for the next sub-task
TurnsNext ==
    \/ PlannerAgent_generate_reply
    \/ PlannerAgent_move_to_next_agent
    \/ SQLDecomposerAgent_generate_reply
    \/ SQLDecomposerAgent_move_to_next_agent

TurnsSpec == Init /\ [][TurnsNext]_vars

\* has_termination_condition applied to a text
TerminationInit ==
    /\ PlannerAgent_init
    /\ Uncalled
    /\ input \in TerminationTexts
    /\ output = NoOutput

TerminationNext == has_termination_condition_call

TerminationSpec == TerminationInit /\ [][TerminationNext]_vars

\* the planner's parse_plan applied to a text
ParseInit ==
    /\ PlannerAgent_init
    /\ Uncalled
    /\ input \in PlanTexts
    /\ output = NoOutput

ParseNext == parse_plan_call

ParseSpec == ParseInit /\ [][ParseNext]_vars

\* the decomposer's parse_steps_numbers applied to a text
NumbersInit ==
    /\ SQLDecomposerAgent_init
    /\ client = TRUE
    /\ available_agents = {Str("SQLGenerator"), Str("Aux")}
    /\ Uncalled
    /\ input \in NumberedTexts
    /\ output = NoOutput

NumbersNext == parse_steps_numbers_call

NumbersSpec == NumbersInit /\ [][NumbersNext]_vars

(***************************************************************************)
(* The planner's cursor.                                                   *)
(***************************************************************************)
\* C1: once a non-terminal generate_reply has replaced an earlier plan by a
\* new plan of at least one step, the next move_to_next_agent returns the
\* sub-task at position 0 of the new plan, however many calls of
\* move_to_next_agent were made on the earlier plan.
C1_ReplanResetsCursor ==
    (/\ cls = "PlannerAgent"
     /\ last.op = "move_to_next_agent"
     /\ plans >= 2
     /\ moves = planned_at + 1
     /\ Len(plan) >= 1
     /\ plan[1].agent \in available_agents)
        => /\ last.exc = "none"
           /\ last.agent = plan[1].agent
           /\ last.prompt = plan[1].prompt

\* C2: on a planner whose first plan was built before any call of
\* move_to_next_agent and has resolvable agent names, the k-th call
\* (1 <= k <= n) returns, without failing, the agent and the prompt of the plan
\* element at position k-1: plan order, none skipped, none repeated.
C2_FirstPlanInOrder ==
    (/\ cls = "PlannerAgent"
     /\ last.op = "move_to_next_agent"
     /\ plans = 1
     /\ planned_at = 0
     /\ moves <= Len(plan)
     /\ \A i \in 1..Len(plan) : plan[i].agent \in available_agents)
        => /\ last.exc = "none"
           /\ plan_index = moves - 1
           /\ plan[moves].index = moves - 1
           /\ last.agent = plan[moves].agent
           /\ last.prompt = plan[moves].prompt

\* the second and last sub-task of a first plan of two steps was handed out
C2_Witness ==
    /\ cls = "PlannerAgent"
    /\ last.op = "move_to_next_agent"
    /\ last.exc = "none"
    /\ plans = 1
    /\ planned_at = 0
    /\ moves = 2
    /\ Len(plan) = 2
    /\ last.prompt = plan[2].prompt
    /\ plan[1].prompt # plan[2].prompt

\* C3: move_to_next_agent fails with the exhausted-plan error (ValueError)
\* whenever the incremented cursor is at or past the length of the plan: on an
\* empty plan, and on every call after n calls were made on a plan of n steps
\* that was not replaced since.
C3_ExhaustedPlanFails ==
    (cls = "PlannerAgent" /\ last.op = "move_to_next_agent")
        => /\ plan_index >= Len(plan) => last.exc = "ValueError"
           /\ plan = <<>> => last.exc = "ValueError"
           /\ moves - planned_at > Len(plan) => last.exc = "ValueError"

\* a plan of two steps was handed out in two calls, and the third call failed
C3_Witness ==
    /\ cls = "PlannerAgent"
    /\ last.op = "move_to_next_agent"
    /\ last.exc = "ValueError"
    /\ plans = 1
    /\ planned_at = 0
    /\ Len(plan) = 2
    /\ moves = 3
    /\ \A i \in 1..2 : plan[i].agent \in available_agents

(***************************************************************************)
(* The decomposer's queue.                                                 *)
(***************************************************************************)
\* C4: a move_to_next_agent that pops a sub-task sets to zero the attempt
\* counter of every executor of the sub-task's target agent and leaves the
\* counter of every other executor as it was.
C4_ResetOnDispatchExact ==
    [][(/\ cls = "SQLDecomposerAgent"
        /\ last'.op = "move_to_next_agent"
        /\ plan # <<>>)
          => /\ last'.agent = Head(plan).agent
             /\ \A e \in executors(Head(plan).agent) : attempts'[e] = 0
             /\ \A e \in Executors \ executors(Head(plan).agent) :
                   attempts'[e] = attempts[e]]_vars

\* a sub-task for SQLGenerator was popped: its executors count no attempts,
\* the executor of Aux still counts the attempt it made
C4_Witness ==
    /\ cls = "SQLDecomposerAgent"
    /\ last.op = "move_to_next_agent"
    /\ last.agent = Str("SQLGenerator")
    /\ attempts["ex1"] = 0
    /\ attempts["ex2"] = 0
    /\ attempts["ex3"] > 0

\* C5: the sub-tasks move_to_next_agent has returned are, in order, the first
\* of the sub-tasks enqueued, and the queue holds the rest: first in first
\* out, each returned once, never more returned than enqueued; a turn
\* enqueues the instructions in the order they are parsed.
C5_QueueIsFifo ==
    cls = "SQLDecomposerAgent"
        => /\ Len(dequeued) <= Len(enqueued)
           /\ dequeued = SubSeq(enqueued, 1, Len(dequeued))
           /\ plan = SubSeq(enqueued, Len(dequeued) + 1, Len(enqueued))
           /\ (/\ last.op = "generate_reply"
               /\ last.exc = "none"
               /\ Len(parse_steps_instructions(last.reply.content)) = 2)
                 => LET n == Len(enqueued)
                    IN  /\ n >= 2
                        /\ enqueued[n - 1].prompt
                             = parse_steps_instructions(last.reply.content)[1]
                        /\ enqueued[n].prompt
                             = parse_steps_instructions(last.reply.content)[2]

\* two different sub-tasks were returned and a third, enqueued by a later
\* turn, is still in the queue
C5_Witness ==
    /\ cls = "SQLDecomposerAgent"
    /\ last.op = "move_to_next_agent"
    /\ Len(enqueued) = 3
    /\ Len(dequeued) = 2
    /\ dequeued[1].prompt # dequeued[2].prompt
    /\ Len(plan) = 1

\* C6: a move_to_next_agent on an empty queue returns None without raising,
\* leaves the queue empty and resets no attempt counter, also after the queue
\* was drained.
C6_EmptyQueueNoTask ==
    [][(/\ cls = "SQLDecomposerAgent"
        /\ last'.op = "move_to_next_agent"
        /\ plan = <<>>)
          => /\ last'.exc = "none"
             /\ last'.agent = NoAgent
             /\ last'.prompt = <<>>
             /\ plan' = <<>>
             /\ attempts' = attempts
             /\ dequeued' = dequeued]_vars

\* the queue was drained, an executor made an attempt, and a further call
\* returned None
C6_Witness ==
    /\ cls = "SQLDecomposerAgent"
    /\ last.op = "move_to_next_agent"
    /\ last.exc = "none"
    /\ last.agent = NoAgent
    /\ plan = <<>>
    /\ Len(dequeued) >= 1
    /\ Len(dequeued) = Len(enqueued)
    /\ \E e \in Executors : attempts[e] > 0

(***************************************************************************)
(* send and receive.                                                       *)
(***************************************************************************)
\* C7: the sequence an agent of either class keeps for a counterpart B holds
\* only messages exchanged with B.
C7_HistoryIsolation ==
    \A b \in Counterparts :
        \A i \in 1..Len(get_messages(messages, b)) :
            get_messages(messages, b)[i].counterpart = b

\* the planner has sent to one counterpart and received from and replied to
\* another
C7_Witness ==
    /\ cls = "PlannerAgent"
    /\ Len(get_messages(messages, "User")) = 1
    /\ Len(get_messages(messages, "Controller")) = 2
    /\ get_messages(messages, "Controller")[1].role = "user"
    /\ get_messages(messages, "Controller")[2].role = "assistant"

\* C8: send with no message raises, records nothing and does not invoke the
\* recipient's receive; send with a message appends it to the history under
\* the recipient and then invokes the recipient's receive with it.
C8_SendRecordsThenDelivers ==
    [][last'.op = "send"
          => IF last'.message = NoMessage
             THEN /\ last'.exc = "ValueError"
                  /\ messages' = messages
                  /\ last'.events = <<>>
             ELSE /\ last'.exc = "none"
                  /\ Len(last'.events) = 2
                  /\ last'.events[1].ev = "add_message"
                  /\ last'.events[1].agent = last'.agent
                  /\ last'.events[1].message.content = last'.message.content
                  /\ last'.events[2].ev = "receive"
                  /\ last'.events[2].agent = last'.agent
                  /\ last'.events[2].message.content = last'.message.content
                  /\ messages' = [messages EXCEPT ![last'.agent] =
                                      Append(@, last'.events[1].message)]]_vars

\* a send with no message failed on an agent that has messages recorded
C8_Witness ==
    /\ last.op = "send"
    /\ last.message = NoMessage
    /\ last.exc = "ValueError"
    /\ Recorded(messages, Counterparts) >= 2

\* C9: a receive(m, S) whose generate_reply returns appends m to the history
\* for S, then appends exactly one reply after m and invokes S's receive with
\* it, also when the reply is a termination message.
C9_ReceiveRoundTrip ==
    [][(last'.op = "receive" /\ last'.exc = "none")
          => LET S == last'.agent
                 ev == last'.events
             IN  /\ Len(ev) = 3
                 /\ ev[1].ev = "add_message"
                 /\ ev[1].agent = S
                 /\ ev[1].message.role = "user"
                 /\ ev[1].message.content
                      \in {last'.message.content, objective(last'.message.content),
                           feedback(last'.message.content)}
                 /\ ev[2].ev = "add_message"
                 /\ ev[2].agent = S
                 /\ ev[2].message.role = "assistant"
                 /\ ev[2].message.content = last'.reply.content
                 /\ ev[2].message.is_termination_message
                      = last'.reply.is_termination_message
                 /\ ev[3].ev = "receive"
                 /\ ev[3].agent = S
                 /\ ev[3].message = ev[2].message
                 /\ get_messages(messages', S)
                      = get_messages(messages, S) \o <<ev[1].message, ev[2].message>>
                 /\ \A b \in Counterparts \ {S} :
                       get_messages(messages', b) = get_messages(messages, b)]_vars

\* a receive was answered by a termination message, which is the last message
\* of the history for the sender
C9_Witness ==
    /\ last.op = "receive"
    /\ last.exc = "none"
    /\ last.reply.is_termination_message
    /\ Len(get_messages(messages, last.agent)) >= 2
    /\ get_messages(messages, last.agent)[Len(get_messages(messages, last.agent))].content
         = last.reply.content

\* C10: in the history the planner keeps for a sender S, the first message
\* received from S is wrapped in the objective marker and every later message
\* received from S in the feedback marker, whatever the planner has sent.
C10_ObjectiveThenFeedback ==
    cls = "PlannerAgent"
        => \A S \in Counterparts :
              \A i \in 1..Len(get_messages(messages, S)) :
                 get_messages(messages, S)[i].role = "user"
                    => IF \A j \in 1..(i - 1) : get_messages(messages, S)[j].role # "user"
                       THEN \E c \in Requests :
                               get_messages(messages, S)[i].content = objective(c)
                       ELSE \E c \in Requests :
                               get_messages(messages, S)[i].content = feedback(c)

(***************************************************************************)
(* Planning turns.                                                         *)
(***************************************************************************)
\* C11: when the backend's response satisfies the termination condition,
\* generate_reply returns a reply flagged is_termination_message with that
\* content, the planner's plan and cursor are as before, and nothing is put in
\* the decomposer's queue.
C11_TerminalLeavesPlanState ==
    [][(/\ last'.op = "generate_reply"
        /\ ~last'.response.raised
        /\ \/ /\ cls = "PlannerAgent"
              /\ has_termination_condition(last'.response.content, termination_message)
           \/ /\ cls = "SQLDecomposerAgent"
              /\ client
              /\ has_end(last'.response.content))
          => /\ last'.exc = "none"
             /\ last'.reply.is_termination_message
             /\ last'.reply.content = last'.response.content
             /\ plan' = plan
             /\ plan_index' = plan_index
             /\ plans' = plans
             /\ enqueued' = enqueued]_vars

\* the planner, two sub-tasks into its plan, was answered by the sentinel and
\* still holds the plan and the cursor
C11_Witness ==
    /\ cls = "PlannerAgent"
    /\ last.op = "generate_reply"
    /\ last.exc = "none"
    /\ last.reply.is_termination_message
    /\ Len(plan) = 2
    /\ plan_index = 1
    /\ plans = 1

\* C12: once the planner has returned a termination message, no later receive
\* or generate_reply builds or replaces a plan, and the planner stays
\* terminated.
C12_TerminatedIsAbsorbing ==
    [][(cls = "PlannerAgent" /\ terminated)
          => /\ plan' = plan
             /\ plans' = plans
             /\ terminated']_vars

\* C13: after a successful non-terminal planning turn the decomposer's queue
\* holds exactly the sub-tasks of that turn; what an earlier turn left in the
\* queue is gone.
C13_PlanReplacedEachTurn ==
    (/\ cls = "SQLDecomposerAgent"
     /\ last.op = "generate_reply"
     /\ last.exc = "none"
     /\ ~last.reply.is_termination_message)
        => plan = decomposer_reply(client, last.response, last.prompt,
                                   available_agents, last.agent).put

\* C14: when the decomposer parses the backend's text into exactly one
\* instruction, the turn enqueues one sub-task whose prompt is the content of
\* the latest request; when it parses two or more, it enqueues one sub-task
\* per instruction, in order, each with the instruction as its prompt.
C14_SingleStepCollapse ==
    [][(/\ cls = "SQLDecomposerAgent"
        /\ client
        /\ last'.op = "generate_reply"
        /\ last'.exc = "none"
        /\ ~last'.reply.is_termination_message)
          => LET steps == decomposer_parsed[last'.response.content].plan
                 k == Len(steps)
                 n == Len(enqueued)
             IN  /\ k = 1 => /\ Len(enqueued') = n + 1
                             /\ SubSeq(enqueued', 1, n) = enqueued
                             /\ enqueued'[n + 1].prompt = last'.message.content
                 /\ k >= 2 => /\ Len(enqueued') = n + k
                              /\ SubSeq(enqueued', 1, n) = enqueued
                              /\ \A i \in 1..k :
                                    enqueued'[n + i].prompt = steps[i].prompt]_vars

\* a turn whose backend text held the one instruction "c" enqueued the
\* request, which is another text
C14_Witness ==
    /\ cls = "SQLDecomposerAgent"
    /\ client
    /\ last.op = "generate_reply"
    /\ last.exc = "none"
    /\ parse_steps_instructions(last.response.content) = <<Str("c")>>
    /\ enqueued # <<>>
    /\ enqueued[Len(enqueued)].prompt = last.message.content
    /\ enqueued[Len(enqueued)].prompt # Str("c")

(***************************************************************************)
(* Termination detection.                                                  *)
(***************************************************************************)
\* C15: a text is terminal if and only if, with the blanks at its two ends
\* removed, it starts with the sentinel or ends with it: the sentinel alone is
\* terminal; a text that holds the sentinel only between other characters, or
\* not at all, is not.
C15_TerminalIffPrefixOrSuffix ==
    output.raises = "none"
        => \E i, j \in 0..Len(input) :
              /\ i + j <= Len(input)
              /\ \A n \in 1..i : input[n].k = "ws"
              /\ \A n \in (Len(input) - j + 1)..Len(input) : input[n].k = "ws"
              /\ LET trimmed == SubSeq(input, i + 1, Len(input) - j)
                     t == Len(trimmed)
                     sentinel == Open("exit")
                 IN  /\ t > 0 => (trimmed[1].k # "ws" /\ trimmed[t].k # "ws")
                     /\ output.value
                          <=> (t > 0 /\ (trimmed[1] = sentinel \/ trimmed[t] = sentinel))
                     /\ trimmed = <<sentinel>> => output.value
                     /\ (\A n \in 1..t : trimmed[n] # sentinel) => ~output.value
                     /\ (/\ t > 0
                         /\ trimmed[1] # sentinel
                         /\ trimmed[t] # sentinel
                         /\ \E n \in 2..(t - 1) : trimmed[n] = sentinel) => ~output.value

\* a text with blanks around it that ends with the sentinel after a word was
\* found terminal
C15_Witness ==
    /\ output.raises = "none"
    /\ input = <<WS, Text("a"), Open("exit"), WS>>
    /\ output.value = TRUE

(***************************************************************************)
(* The decomposer without a backend.                                       *)
(***************************************************************************)
\* C16: with no client and more than one available agent, a receive ends in
\* generate_reply's ValueError: the message is recorded, no sub-task is
\* enqueued, no reply is recorded and the sender's receive is not invoked.
C16_NoBackendManyAgentsFails ==
    [][(/\ cls = "SQLDecomposerAgent"
        /\ ~client
        /\ Cardinality(available_agents) > 1
        /\ last'.op = "receive")
          => /\ last'.exc = "ValueError"
             /\ last'.reply = NoMessage
             /\ plan' = plan
             /\ enqueued' = enqueued
             /\ \A n \in 1..Len(last'.events) : last'.events[n].ev # "receive"
             /\ get_messages(messages', last'.agent)
                  = Append(get_messages(messages, last'.agent),
                           [last'.message EXCEPT !.role = "user"])]_vars

\* such a decomposer failed a receive and its queue is empty
C16_Witness ==
    /\ cls = "SQLDecomposerAgent"
    /\ ~client
    /\ Cardinality(available_agents) = 2
    /\ last.op = "receive"
    /\ last.exc = "ValueError"
    /\ plan = <<>>
    /\ Len(get_messages(messages, last.agent)) >= 1

\* C17: with no client and exactly one available agent, each generate_reply
\* enqueues exactly one sub-task, for that agent, whose prompt is the content
\* of the latest message as it is, and returns a non-terminal one-step plan
\* text that names the agent and holds the same content.
C17_NoBackendPassthrough ==
    [][(/\ cls = "SQLDecomposerAgent"
        /\ ~client
        /\ Cardinality(available_agents) = 1
        /\ last'.op = "generate_reply")
          => \E a \in available_agents :
                /\ last'.exc = "none"
                /\ enqueued' = Append(enqueued, [agent |-> a,
                                                 prompt |-> last'.message.content])
                /\ plan' = Append(plan, [agent |-> a, prompt |-> last'.message.content])
                /\ ~last'.reply.is_termination_message
                /\ last'.reply.content
                     = <<Open("steps"), Open("step1"), Open("agent")>> \o a
                         \o <<Close("agent"), Open("instruction")>>
                         \o last'.message.content
                         \o <<Close("instruction"), Close("step1"), Close("steps")>>]_vars

\* two turns enqueued the two requests as they were, blanks included
C17_Witness ==
    /\ cls = "SQLDecomposerAgent"
    /\ ~client
    /\ Cardinality(available_agents) = 1
    /\ last.op = "generate_reply"
    /\ last.exc = "none"
    /\ Len(enqueued) = 2
    /\ enqueued[1].prompt = Str("q1")
    /\ enqueued[2].prompt = <<WS, Text("q2"), WS>>
    /\ last.message.content = <<WS, Text("q2"), WS>>

(***************************************************************************)
(* The planner's parse_plan.                                               *)
(***************************************************************************)
\* C18: for a plan text in the format with k steps, alone or with words
\* around it, parse_plan returns k sub-tasks in document order, the i-th
\* (from 0) with index i and the agent text and the instruction text of step
\* i, both without the blanks around them.
C18_ParsePlanStepsTrimmed ==
    output.raises # "unset"
        => \A st \in StepSeqs :
              input \in {PlanText(st),
                         <<Text("plan"), NL>> \o PlanText(st) \o <<NL, Text("done")>>}
                 => /\ output.raises = "none"
                    /\ Len(output.value) = Len(st)
                    /\ \A i \in 1..Len(st) :
                          output.value[i]
                            = PlannerSubTask(i - 1, strip(st[i].agent),
                                             strip(st[i].instruction))

\* C19: when a backend response that is not terminal holds no "<steps>", the
\* planner's receive ends in parse_plan's ValueError: the plan and the cursor
\* are as before, the received message is recorded, and no reply is recorded
\* or delivered.
C19_NoEnvelopeRaises ==
    [][(/\ cls = "PlannerAgent"
        /\ last'.op = "receive"
        /\ ~last'.response.raised
        /\ ~has_termination_condition(last'.response.content, termination_message)
        /\ ~Contains(last'.response.content, Open("steps")))
          => /\ last'.exc = "ValueError"
             /\ last'.reply = NoMessage
             /\ plan' = plan
             /\ plan_index' = plan_index
             /\ plans' = plans
             /\ Len(last'.events) = 1
             /\ last'.events[1].ev = "add_message"
             /\ get_messages(messages', last'.agent)
                  = Append(get_messages(messages, last'.agent),
                           last'.events[1].message)]_vars

\* a planner that holds a plan and has handed out a sub-task failed a receive
\* this way and still holds the plan
C19_Witness ==
    /\ cls = "PlannerAgent"
    /\ last.op = "receive"
    /\ last.exc = "ValueError"
    /\ last.response.content = Str("sorry")
    /\ Len(plan) >= 1
    /\ plan_index = 0
    /\ plans = 1

\* C20: for a text that holds "<steps>" but whose envelope is not well-formed,
\* parse_plan returns an empty plan and raises nothing.
C20_MalformedGivesEmptyPlan ==
    (/\ output.raises # "unset"
     /\ Contains(input, Open("steps"))
     /\ ~WellFormed(inner_steps(input)))
        => /\ output.raises = "none"
           /\ output.value = <<>>

(***************************************************************************)
(* The decomposer's enumerated lists.                                      *)
(***************************************************************************)
\* the numbered items of a text, as the places of their markers: a marker at
\* the start of the text or of a line
ItemMarkers(t) == {j \in 1..Len(t) : t[j].k = "num" /\ (j = 1 \/ t[j - 1] = NL)}

\* the text of the item whose marker is at j: up to the line of the next item
ItemBody(t, j) ==
    LET later == {m \in ItemMarkers(t) : m > j}
    IN  unmarked(strip(SubSeq(t, j + 1, IF later = {} THEN Len(t) ELSE Least(later) - 2)))

\* the items at the places js in ascending order of their markers (items with
\* the same marker in the order of the text)
RECURSIVE InMarkerOrder(_, _)
InMarkerOrder(t, js) ==
    IF js = {} THEN <<>>
    ELSE LET first == CHOOSE j \in js : \A m \in js :
                          \/ NumVal[t[j].v] < NumVal[t[m].v]
                          \/ NumVal[t[j].v] = NumVal[t[m].v] /\ j <= m
         IN  <<ItemBody(t, first)>> \o InMarkerOrder(t, js \ {first})

\* C21: enumerated-list parsing of a text that contains the first-item marker
\* returns the items in ascending order of their numeric markers, whatever
\* their order in the text, with one entry for each numbered item of the text
C21_ItemsInMarkerOrder ==
    (output.raises # "unset" /\ Contains(input, Num("1")))
        => /\ output.raises = "none"
           /\ Len(output.value) = Cardinality(ItemMarkers(input))
           /\ output.value = InMarkerOrder(input, ItemMarkers(input))

(***************************************************************************)
(* Failures of the planner's move_to_next_agent.                           *)
(***************************************************************************)
\* C22: when the sub-task at the incremented cursor names an agent that is not
\* in the planner's available agents, move_to_next_agent fails with a lookup
\* failure (KeyError) that reaches the caller: it returns no agent in place of
\* the unknown one, and it neither asks the backend nor changes the plan.
C22_UnknownAgentFails ==
    [][(/\ cls = "PlannerAgent"
        /\ moves' = moves + 1
        /\ plan_index + 1 < Len(plan)
        /\ sub_task_at(plan, plan_index + 1).agent \notin available_agents)
           => /\ last'.op = "move_to_next_agent"
              /\ last'.exc = "KeyError"
              /\ last'.agent = NoAgent
              /\ last'.response = NoResponse
              /\ plan' = plan
              /\ plans' = plans
              /\ messages' = messages]_vars

\* the plan's first step names Ghost, which the planner does not have, and the
\* first call of move_to_next_agent failed on it
C22_Witness ==
    /\ cls = "PlannerAgent"
    /\ last.op = "move_to_next_agent"
    /\ last.exc = "KeyError"
    /\ plan_index = 0
    /\ Len(plan) = 2
    /\ sub_task_at(plan, 0).agent = Str("Ghost")
    /\ Str("Ghost") \notin available_agents

\* C24: every call of the planner's move_to_next_agent increases the cursor by
\* exactly one and leaves the plan unchanged, whether it returns a sub-task or
\* fails; so a sub-task whose agent cannot be resolved is skipped: the call
\* after the failed lookup returns the sub-task that follows it.
C24_CursorAdvancesOnEveryCall ==
    [][(cls = "PlannerAgent" /\ moves' = moves + 1)
          => /\ last'.op = "move_to_next_agent"
             /\ plan_index' = plan_index + 1
             /\ plan' = plan
             /\ (/\ last.op = "move_to_next_agent"
                 /\ last.exc = "KeyError"
                 /\ plan_index + 1 < Len(plan)
                 /\ sub_task_at(plan, plan_index + 1).agent \in available_agents)
                    => /\ last'.exc = "none"
                       /\ last'.agent = sub_task_at(plan, plan_index + 1).agent
                       /\ last'.prompt = sub_task_at(plan, plan_index + 1).prompt]_vars

\* the first call failed on Ghost, the first step of the only plan, and the
\* second call returned the second step
C24_Witness ==
    /\ cls = "PlannerAgent"
    /\ plans = 1
    /\ planned_at = 0
    /\ moves = 2
    /\ plan_index = 1
    /\ Len(plan) = 2
    /\ sub_task_at(plan, 0).agent \notin available_agents
    /\ last.op = "move_to_next_agent"
    /\ last.exc = "none"
    /\ last.agent = sub_task_at(plan, 1).agent
    /\ last.prompt = sub_task_at(plan, 1).prompt

(***************************************************************************)
(* Failing turns.                                                          *)
(***************************************************************************)
\* C23: a failing planning turn of the decomposer leaves its queue exactly as
\* it was and sends no reply; and the turn does fail when the backend's
\* non-terminal text has neither an instruction tag nor the first-item marker
\* (ValueError), and when the agent a parsed step designates is not among the
\* available agents (KeyError).
C23_FailingTurnIsAtomic ==
    [][(cls = "SQLDecomposerAgent" /\ last'.op = "receive")
          => LET content == last'.response.content
                 non_terminal == client /\ ~last'.response.raised /\ ~has_end(content)
                 no_steps == /\ ~\E i \in 1..Len(content) :
                                    content[i].k = "open" /\ content[i].v \in InstructionTags
                             /\ ~Contains(content, Num("1"))
             IN  /\ (non_terminal /\ no_steps) => last'.exc = "ValueError"
                 /\ (/\ non_terminal
                     /\ ~no_steps
                     /\ \E n \in 1..Len(decomposer_parsed[content].plan) :
                            decomposer_parsed[content].plan[n].agent_name
                                \notin available_agents)
                        => last'.exc = "KeyError"
                 /\ last'.exc # "none"
                        => /\ plan' = plan
                           /\ enqueued' = enqueued
                           /\ last'.reply = NoMessage
                           /\ \A n \in 1..Len(last'.events) :
                                  last'.events[n].ev # "receive"
                           /\ get_messages(messages', last'.agent)
                                = Append(get_messages(messages, last'.agent),
                                         [last'.message EXCEPT !.role = "user"])]_vars

\* a turn failed on a text without steps while the queue held the two
\* sub-tasks of the turn before
C23_Witness ==
    /\ cls = "SQLDecomposerAgent"
    /\ client
    /\ last.op = "receive"
    /\ last.exc = "ValueError"
    /\ last.response.content = Str("sorry")
    /\ Len(plan) = 2
    /\ enqueued = plan

\* C25: when generate_reply fails inside receive, on a backend failure or a
\* fatal parse failure, the failure reaches the caller and no reply is sent,
\* but the incoming message stays recorded in the history of its sender; so
\* the planner wraps the next message from that sender as feedback, even if no
\* plan was ever built.
C25_FailedReceiveKeepsMessage ==
    [][(last'.op = "receive")
          => LET a == last'.agent
                 old == get_messages(messages, a)
                 new == get_messages(messages', a)
             IN  /\ last'.response.raised => last'.exc = "BackendError"
                 /\ last'.exc # "none"
                        => /\ last'.reply = NoMessage
                           /\ \A n \in 1..Len(last'.events) :
                                  last'.events[n].ev # "receive"
                           /\ Len(new) = Len(old) + 1
                           /\ SubSeq(new, 1, Len(old)) = old
                           /\ new[Len(new)].role = "user"
                           /\ new[Len(new)].content
                                = IF cls = "SQLDecomposerAgent" THEN last'.prompt
                                  ELSE IF old = <<>> THEN objective(last'.prompt)
                                  ELSE feedback(last'.prompt)
                           /\ \A b \in Counterparts \ {a} :
                                  get_messages(messages', b) = get_messages(messages, b)
                           /\ plan' = plan
                           /\ plans' = plans
                 /\ (/\ cls = "PlannerAgent"
                     /\ last.op = "receive"
                     /\ last.exc # "none"
                     /\ last.agent = a)
                        => /\ new[Len(old) + 1].role = "user"
                           /\ new[Len(old) + 1].content = feedback(last'.prompt)]_vars

\* no plan was ever built: the planner failed on the first message of a sender
\* and on the next, which it wrapped as feedback
C25_Witness ==
    /\ cls = "PlannerAgent"
    /\ plans = 0
    /\ last.op = "receive"
    /\ last.exc # "none"
    /\ Len(get_messages(messages, last.agent)) = 2
    /\ get_messages(messages, last.agent)[1].role = "user"
    /\ get_messages(messages, last.agent)[1].content[1] = Open("objective")
    /\ get_messages(messages, last.agent)[2].role = "user"
    /\ get_messages(messages, last.agent)[2].content = feedback(last.prompt)

====
